---- MODULE Spec2Model ----
(***************************************************************************)
(* Model of the amnezia-config-reader command (src/main.go).               *)
(*                                                                         *)
(* Go strings and byte slices are sequences of byte values 0..255 (the     *)
(* ASCII codes of their characters).  Byte strings whose only use is to be *)
(* handed to a JSON parser are represented by the document they spell.     *)
(***************************************************************************)
EXTENDS Integers, Sequences, FiniteSets, TLC

\* --------------------------------------------------------------------------
\* Bytes and bit operations
\* --------------------------------------------------------------------------
ByteMod == 256

Byte == 0..(ByteMod - 1)

RECURSIVE BitAnd(_, _)
\* a & b on non-negative integers
BitAnd(a, b) ==
    IF a = 0 \/ b = 0 THEN 0
    ELSE ((a % 2) * (b % 2)) + 2 * BitAnd(a \div 2, b \div 2)

RECURSIVE BitOr(_, _)
\* a | b on non-negative integers
BitOr(a, b) ==
    IF a = 0 THEN b
    ELSE IF b = 0 THEN a
    ELSE (IF (a % 2) + (b % 2) > 0 THEN 1 ELSE 0) + 2 * BitOr(a \div 2, b \div 2)

\* bit n (0 = least significant) of the byte b
Bit(b, n) == (b \div (2 ^ n)) % 2

RECURSIVE Flatten(_)
\* concatenation of a sequence of byte strings
Flatten(ss) == IF ss = <<>> THEN <<>> ELSE Head(ss) \o Flatten(Tail(ss))

\* --------------------------------------------------------------------------
\* String literals of the program, as ASCII codes
\* --------------------------------------------------------------------------
\* "vpn://"
VpnPrefix == <<118, 112, 110, 58, 47, 47>>

\* "$WIREGUARD_CLIENT_PRIVATE_KEY"
Placeholder ==
    <<36, 87, 73, 82, 69, 71, 85, 65, 82, 68, 95, 67, 76, 73, 69, 78, 84, 95,
      80, 82, 73, 86, 65, 84, 69, 95, 75, 69, 89>>

\* --------------------------------------------------------------------------
\* strings.Replace(s, old, new, -1) for a non-empty old: every
\* non-overlapping occurrence, scanning from the left
\* --------------------------------------------------------------------------
HasPrefix(s, p) == Len(s) >= Len(p) /\ SubSeq(s, 1, Len(p)) = p

RECURSIVE ReplaceAll(_, _, _)
ReplaceAll(s, old, new) ==
    IF Len(s) < Len(old) THEN s
    ELSE IF HasPrefix(s, old)
         THEN new \o ReplaceAll(SubSeq(s, Len(old) + 1, Len(s)), old, new)
         ELSE <<Head(s)>> \o ReplaceAll(Tail(s), old, new)

\* s contains sub as a contiguous substring (strings.Contains)
Contains(s, sub) ==
    \E i \in 1..(Len(s) - Len(sub) + 1) : SubSeq(s, i, i + Len(sub) - 1) = sub

\* --------------------------------------------------------------------------
\* encoding/base64
\* --------------------------------------------------------------------------
UpperAZ == [i \in 1..26 |-> 64 + i]
LowerAZ == [i \in 1..26 |-> 96 + i]
Digits09 == [i \in 1..10 |-> 47 + i]

\* base64.StdEncoding alphabet: A-Z a-z 0-9 + /
StdEncoding == UpperAZ \o LowerAZ \o Digits09 \o <<43, 47>>

\* base64.URLEncoding alphabet: A-Z a-z 0-9 - _
URLEncoding == UpperAZ \o LowerAZ \o Digits09 \o <<45, 95>>

\* '=' : both encodings use standard padding
PadChar == 61

InAlphabet(enc, c) == \E i \in 1..Len(enc) : enc[i] = c

\* the 6-bit value of the character c
Sextet(enc, c) == (CHOOSE i \in 1..Len(enc) : enc[i] = c) - 1

Char(enc, v) == enc[v + 1]

RECURSIVE EncodeToString(_, _)
\* Encoding.EncodeToString: 3 bytes -> 4 characters, the tail padded with '='
EncodeToString(enc, src) ==
    IF Len(src) = 0 THEN <<>>
    ELSE IF Len(src) = 1
    THEN << Char(enc, src[1] \div 4),
            Char(enc, (src[1] % 4) * 16),
            PadChar, PadChar >>
    ELSE IF Len(src) = 2
    THEN << Char(enc, src[1] \div 4),
            Char(enc, (src[1] % 4) * 16 + (src[2] \div 16)),
            Char(enc, (src[2] % 16) * 4),
            PadChar >>
    ELSE << Char(enc, src[1] \div 4),
            Char(enc, (src[1] % 4) * 16 + (src[2] \div 16)),
            Char(enc, (src[2] % 16) * 4 + (src[3] \div 64)),
            Char(enc, src[3] % 64) >>
         \o EncodeToString(enc, SubSeq(src, 4, Len(src)))

\* the decoder skips '\r' and '\n'
SkipNewlines(s) == SelectSeq(s, LAMBDA c : c # 10 /\ c # 13)

\* one quantum of 4 characters; last = it is the final quantum, the only one
\* that may carry padding.  Non-strict decoding: trailing bits are not checked
QuantumOK(enc, q, last) ==
    /\ InAlphabet(enc, q[1])
    /\ InAlphabet(enc, q[2])
    /\ \/ InAlphabet(enc, q[3]) /\ InAlphabet(enc, q[4])
       \/ last /\ InAlphabet(enc, q[3]) /\ q[4] = PadChar
       \/ last /\ q[3] = PadChar /\ q[4] = PadChar

QuantumBytes(enc, q) ==
    LET a == Sextet(enc, q[1])
        b == Sextet(enc, q[2])
    IN  IF q[3] = PadChar /\ q[4] = PadChar
        THEN << a * 4 + (b \div 16) >>
        ELSE IF q[4] = PadChar
        THEN << a * 4 + (b \div 16),
                (b % 16) * 16 + (Sextet(enc, q[3]) \div 4) >>
        ELSE << a * 4 + (b \div 16),
                (b % 16) * 16 + (Sextet(enc, q[3]) \div 4),
                (Sextet(enc, q[3]) % 4) * 64 + Sextet(enc, q[4]) >>

RECURSIVE DecodeQuanta(_, _)
DecodeQuanta(enc, s) ==
    IF Len(s) = 0 THEN [err |-> FALSE, bytes |-> <<>>]
    ELSE IF Len(s) < 4 THEN [err |-> TRUE, bytes |-> <<>>]
    ELSE LET q == SubSeq(s, 1, 4)
             rest == SubSeq(s, 5, Len(s))
         IN  IF ~QuantumOK(enc, q, Len(rest) = 0)
             THEN [err |-> TRUE, bytes |-> <<>>]
             ELSE LET r == DecodeQuanta(enc, rest)
                  IN  IF r.err THEN r
                      ELSE [err |-> FALSE, bytes |-> QuantumBytes(enc, q) \o r.bytes]

\* Encoding.DecodeString: the decoded bytes, or err (CorruptInputError)
DecodeString(enc, s) == DecodeQuanta(enc, SkipNewlines(s))

\* --------------------------------------------------------------------------
\* encoding/json: documents
\* --------------------------------------------------------------------------
\* a byte string that spells no JSON document (the empty string included)
Raw(b) == [kind |-> "raw", bytes |-> b]

JNull == [kind |-> "null"]
JNumber == [kind |-> "number"]
JAbsent == [kind |-> "absent"]
\* a JSON string; s is the Go string it denotes: Raw(bytes), or the document
\* those characters spell
JString(s) == [kind |-> "string", str |-> s]
JArray(es) == [kind |-> "array", elems |-> es]
\* a JSON object; ms is the sequence of its <<name, value>> members
JObject(ms) == [kind |-> "object", members |-> ms]

\* the value of member name of the object d (the last one wins), or JAbsent
Member(d, name) ==
    LET idx == {i \in 1..Len(d.members) : d.members[i][1] = name}
    IN  IF idx = {} THEN JAbsent
        ELSE d.members[CHOOSE i \in idx : \A j \in idx : j <= i][2]

\* a JSON value v stored into a Go string field whose current value is cur
StringField(v, cur) ==
    IF v.kind = "string" THEN [err |-> FALSE, val |-> v.str]
    ELSE IF v.kind \in {"absent", "null"} THEN [err |-> FALSE, val |-> cur]
    ELSE [err |-> TRUE, val |-> cur]

EmptyString == Raw(<<>>)

\* json.Unmarshal(data, &decodedData) into DecodedData
UnmarshalDecodedData(data) ==
    LET zero == [APIEndpoint |-> EmptyString, APIKey |-> EmptyString]
    IN  IF data.kind = "null" THEN [err |-> FALSE, val |-> zero]
        ELSE IF data.kind # "object" THEN [err |-> TRUE, val |-> zero]
        ELSE LET e == StringField(Member(data, "api_endpoint"), EmptyString)
                 k == StringField(Member(data, "api_key"), EmptyString)
             IN  [err |-> e.err \/ k.err,
                  val |-> [APIEndpoint |-> e.val, APIKey |-> k.val]]

\* json.Unmarshal(respBody, response) into ResponseBody
UnmarshalResponseBody(data) ==
    LET zero == [Config |-> EmptyString]
    IN  IF data.kind = "null" THEN [err |-> FALSE, val |-> zero]
        ELSE IF data.kind # "object" THEN [err |-> TRUE, val |-> zero]
        ELSE LET c == StringField(Member(data, "config"), EmptyString)
             IN  [err |-> c.err, val |-> [Config |-> c.val]]

\* a JSON value stored into a field of type AWG
UnmarshalAWG(v) ==
    LET zero == [LastConfig |-> EmptyString]
    IN  IF v.kind \in {"absent", "null"} THEN [err |-> FALSE, val |-> zero]
        ELSE IF v.kind # "object" THEN [err |-> TRUE, val |-> zero]
        ELSE LET c == StringField(Member(v, "last_config"), EmptyString)
             IN  [err |-> c.err, val |-> [LastConfig |-> c.val]]

\* a JSON value stored into an element of type Container
UnmarshalContainer(v) ==
    LET zero == [AWG |-> [LastConfig |-> EmptyString]]
    IN  IF v.kind = "null" THEN [err |-> FALSE, val |-> zero]
        ELSE IF v.kind # "object" THEN [err |-> TRUE, val |-> zero]
        ELSE LET a == UnmarshalAWG(Member(v, "awg"))
             IN  [err |-> a.err, val |-> [AWG |-> a.val]]

\* json.Unmarshal(decodedConfig, &config) into Config
UnmarshalConfig(data) ==
    LET zero == [Containers |-> <<>>]
    IN  IF data.kind = "null" THEN [err |-> FALSE, val |-> zero]
        ELSE IF data.kind # "object" THEN [err |-> TRUE, val |-> zero]
        ELSE LET cs == Member(data, "containers")
             IN  IF cs.kind \in {"absent", "null"} THEN [err |-> FALSE, val |-> zero]
                 ELSE IF cs.kind # "array" THEN [err |-> TRUE, val |-> zero]
                 ELSE LET rs == [i \in 1..Len(cs.elems) |-> UnmarshalContainer(cs.elems[i])]
                      IN  [err |-> \E i \in 1..Len(rs) : rs[i].err,
                           val |-> [Containers |-> [i \in 1..Len(rs) |-> rs[i].val]]]

\* json.Unmarshal(data, &lastConfig) into map[string]interface{}; a nil map
\* is the object without members
UnmarshalMap(data) ==
    IF data.kind = "null" THEN [err |-> FALSE, val |-> JObject(<<>>)]
    ELSE IF data.kind # "object" THEN [err |-> TRUE, val |-> JObject(<<>>)]
    ELSE [err |-> FALSE, val |-> data]

\* --------------------------------------------------------------------------
\* Errors: the chain of messages built by fmt.Errorf, outermost first, and
\* the arguments of the status error
\* --------------------------------------------------------------------------
Err(msgs) == [msgs |-> msgs, StatusCode |-> 0, Response |-> EmptyString]

NoErr == Err(<<>>)

ErrStatus(code, body) ==
    [msgs |-> <<"unexpected HTTP status code">>, StatusCode |-> code, Response |-> body]

IsErr(e) == e.msgs # <<>>

\* --------------------------------------------------------------------------
\* Documents that the texts of the model carry
\* --------------------------------------------------------------------------
\* "h", "K", and a URL that holds the control character DEL
EndpointText == <<104>>
ApiKeyText == <<75>>
BadURLText == <<104, 127>>

\* templated configurations as pieces: "ph" is the placeholder token
Templates ==
    << <<"lit", "ph", "nl">>,
       <<"ph", "ph">>,
       <<"lit", "nl">> >>

\* the text of one piece, with sub standing where the placeholder is
PieceText(piece, sub) ==
    IF piece = "ph" THEN sub
    ELSE IF piece = "nl" THEN <<10>>
    ELSE <<107, 32, 61, 32>>

\* the pieces rendered with sub in the place of every placeholder
Render(pieces, sub) == Flatten([i \in 1..Len(pieces) |-> PieceText(pieces[i], sub)])

TemplateText(t) == Render(Templates[t], Placeholder)

\* the last_config text {"config": <template t>}
LastConfigDoc(t) == JObject(<< <<"config", JString(Raw(TemplateText(t)))>> >>)

ContainerDoc(lastConfigText) ==
    JObject(<< <<"awg", JObject(<< <<"last_config", JString(lastConfigText)>> >>)>> >>)

ServerDoc(containers) == JObject(<< <<"containers", JArray(containers)>> >>)

LinkDoc(endpoint, apiKey) ==
    JObject(<< <<"api_endpoint", endpoint>>, <<"api_key", apiKey>> >>)

\* the contents the compressed streams of the model inflate to
Documents ==
    << LinkDoc(JString(Raw(EndpointText)), JString(Raw(ApiKeyText))),
       JObject(<< <<"api_endpoint", JString(Raw(EndpointText))>> >>),
       JObject(<< <<"api_key", JString(Raw(ApiKeyText))>> >>),
       LinkDoc(JString(EmptyString), JString(EmptyString)),
       LinkDoc(JNumber, JString(Raw(ApiKeyText))),
       LinkDoc(JString(Raw(BadURLText)), JString(Raw(ApiKeyText))),
       Raw(<<123>>),
       ServerDoc(<< ContainerDoc(LastConfigDoc(1)) >>),
       ServerDoc(<< ContainerDoc(LastConfigDoc(2)) >>),
       ServerDoc(<< ContainerDoc(LastConfigDoc(3)), ContainerDoc(LastConfigDoc(1)) >>),
       ServerDoc(<<>>),
       JObject(<<>>),
       ServerDoc(<< JObject(<<>>) >>),
       ServerDoc(<< ContainerDoc(JObject(<<>>)) >>),
       ServerDoc(<< ContainerDoc(JObject(<< <<"config", JNumber>> >>)) >>) >>

\* --------------------------------------------------------------------------
\* compress/zlib.  A stream is its header byte 0x78 followed by one byte that
\* names the content it inflates to; bytes after the stream are not read
\* --------------------------------------------------------------------------
ZlibCMF == 120

\* zlib.NewReader reads and checks the 2-byte header
ZlibHeaderOK(stream) == Len(stream) >= 2 /\ stream[1] = ZlibCMF

\* io.ReadAll(zlibReader) succeeds
ZlibDataOK(stream) == stream[2] \in 1..Len(Documents)

Inflate(stream) == Documents[stream[2]]

\* --------------------------------------------------------------------------
\* func decode(encodedString string) ([]byte, error)
\* result: ok, err (an error is returned) or panic (slice bounds out of range)
\* --------------------------------------------------------------------------
\* line 224
StripScheme(encodedString) == ReplaceAll(encodedString, VpnPrefix, <<>>)

\* decodedBytes[4:] panics when fewer than 4 bytes were decoded
HeaderLen == 4

decode(encodedString) ==
    LET stripped == StripScheme(encodedString)
        d == DecodeString(URLEncoding, stripped)
    IN  IF d.err
        THEN [result |-> "err", err |-> Err(<<"failed to decode Base64 string">>),
              data |-> EmptyString]
        ELSE IF Len(d.bytes) < HeaderLen
        THEN [result |-> "panic", err |-> NoErr, data |-> EmptyString]
        ELSE LET stream == SubSeq(d.bytes, HeaderLen + 1, Len(d.bytes))
             IN  IF ~ZlibHeaderOK(stream)
                 THEN [result |-> "err", err |-> Err(<<"failed to create zlib reader">>),
                       data |-> EmptyString]
                 ELSE IF ~ZlibDataOK(stream)
                 THEN [result |-> "err", err |-> Err(<<"failed to decompress data">>),
                       data |-> EmptyString]
                 ELSE [result |-> "ok", err |-> NoErr, data |-> Inflate(stream)]

\* func decodeAndParse(encodedString string) (*DecodedData, error)
decodeAndParse(encodedString) ==
    LET d == decode(encodedString)
        nil == [APIEndpoint |-> EmptyString, APIKey |-> EmptyString]
    IN  IF d.result = "panic" THEN [result |-> "panic", err |-> NoErr, val |-> nil]
        ELSE IF d.result = "err"
        THEN [result |-> "err", err |-> Err(<<"failed to decode data">> \o d.err.msgs),
              val |-> nil]
        ELSE LET u == UnmarshalDecodedData(d.data)
             IN  IF u.err
                 THEN [result |-> "err", err |-> Err(<<"failed to parse JSON">>), val |-> nil]
                 ELSE [result |-> "ok", err |-> NoErr, val |-> u.val]

\* --------------------------------------------------------------------------
\* func GenerateX25519KeyPair() (privateKeyBase64, publicKeyBase64 string, err error)
\* --------------------------------------------------------------------------
\* curve25519.ScalarSize
ScalarSize == 32

\* curve25519.Basepoint: the u-coordinate 9, little endian
Basepoint == [i \in 1..ScalarSize |-> IF i = 1 THEN 9 ELSE 0]

\* curve25519.X25519 belongs to a library.  The model keeps what the program
\* relies on: a function of the scalar and the point that yields ScalarSize
\* bytes, is injective in the scalar and never yields the scalar itself
X25519(scalar, point) ==
    [i \in 1..Len(scalar) |-> (scalar[i] * point[1] + point[1]) % ByteMod]

ClampBit6NotSet(privateKey) ==
    [i \in 1..Len(privateKey) |->
        IF i = 1 THEN BitAnd(privateKey[i], 248)
        ELSE IF i = 32 THEN BitAnd(privateKey[i], 127)
        ELSE privateKey[i]]

\* lines 188-190, on the 0-indexed bytes 0 and 31
Clamp(privateKey) ==
    [i \in 1..Len(privateKey) |->
        IF i = 1 THEN BitAnd(privateKey[i], 248)
        ELSE IF i = 32 THEN BitOr(BitAnd(privateKey[i], 127), 64)
        ELSE privateKey[i]]

\* random: what rand.Read did, [err, bytes].  The result is the tuple of the
\* three return values in their declared order
GenerateX25519KeyPair(random) ==
    IF random.err
    THEN << <<>>, <<>>, Err(<<"failed to generate private key">>) >>
    ELSE LET privateKey == Clamp(random.bytes)
             publicKey == X25519(privateKey, Basepoint)
         IN  << EncodeToString(StdEncoding, privateKey),
                EncodeToString(StdEncoding, publicKey),
                NoErr >>

\* --------------------------------------------------------------------------
\* func sendPostRequest(url, body, apiKey, response) error
\* net: what the network and the server do with the request:
\*   [transportErr, StatusCode, Body, readErr]
\* result: err, the requests put on the wire, and *response as left behind
\* --------------------------------------------------------------------------
\* http.NewRequest rejects a URL with an ASCII control character
URLParses(url) == \A i \in 1..Len(url) : url[i] >= 32 /\ url[i] # 127

URLEmptyUnchecked(url) == FALSE

\* line 127
URLEmpty(url) == url = <<>>

APIKeyEmptyUnchecked(apiKey) == FALSE

\* line 130
APIKeyEmpty(apiKey) == apiKey = <<>>

StatusRejectedOffByOne(code) == code < 200 \/ code > 300

\* line 159
StatusRejected(code) == code < 200 \/ code >= 300

sendPostRequest(url, body, apiKey, response, net) ==
    IF URLEmpty(url)
    THEN [err |-> Err(<<"URL cannot be empty">>), wire |-> <<>>, response |-> response]
    ELSE IF APIKeyEmpty(apiKey)
    THEN [err |-> Err(<<"API key cannot be empty">>), wire |-> <<>>, response |-> response]
    ELSE IF ~URLParses(url)
    THEN [err |-> Err(<<"failed to create HTTP request">>), wire |-> <<>>,
          response |-> response]
    ELSE LET req == [Method |-> "POST", URL |-> url,
                     ContentType |-> "application/json",
                     Authorization |-> <<65, 112, 105, 45, 75, 101, 121, 32>> \o apiKey,
                     Body |-> body]
         IN  IF net.transportErr
             THEN [err |-> Err(<<"failed to send HTTP request">>), wire |-> <<req>>,
                   response |-> response]
             ELSE IF StatusRejected(net.StatusCode)
             THEN [err |-> ErrStatus(net.StatusCode, net.Body), wire |-> <<req>>,
                   response |-> response]
             ELSE IF net.readErr
             THEN [err |-> Err(<<"failed to read response body">>), wire |-> <<req>>,
                   response |-> response]
             ELSE LET u == UnmarshalResponseBody(net.Body)
                  IN  IF u.err
                      THEN [err |-> Err(<<"failed to parse response JSON">>),
                            wire |-> <<req>>, response |-> response]
                      ELSE [err |-> NoErr, wire |-> <<req>>, response |-> u.val]

\* --------------------------------------------------------------------------
\* The inputs of a run: texts built from at most MaxPieces pieces
\* --------------------------------------------------------------------------
MaxPieces == 3

\* vpn: the scheme marker; hdr: 3 header bytes; pay: the last header byte
\* and a stream; short: one byte, padded; junk: "!" (in no alphabet)
PieceKinds == {"vpn", "hdr", "pay", "short", "junk"}

Shapes(kinds) == UNION {[1..n -> kinds] : n \in 0..MaxPieces}

ShapePiece(kind, d) ==
    IF kind = "vpn" THEN VpnPrefix
    ELSE IF kind = "hdr" THEN EncodeToString(URLEncoding, <<0, 0, 0>>)
    ELSE IF kind = "pay" THEN EncodeToString(URLEncoding, <<0, ZlibCMF, d>>)
    ELSE IF kind = "short" THEN EncodeToString(URLEncoding, <<0>>)
    ELSE <<33>>

ShapeText(shape, d) == Flatten([i \in 1..Len(shape) |-> ShapePiece(shape[i], d)])

Texts(kinds, ids) == {ShapeText(shape, d) : shape \in Shapes(kinds), d \in ids}

\* the contents a subscription link may carry (0: a corrupt stream)
LinkDocIds == 0..8

\* the contents a response config may carry
RespDocIds == {0} \cup (7..Len(Documents))

\* values of the -key flag; the empty text is the flag left out
Keys == Texts(PieceKinds, LinkDocIds)

\* values of the config field of a response
RespTexts == Texts(PieceKinds \ {"junk"}, RespDocIds)

\* what rand.Read yields in a run
Seeds ==
    { [i \in 1..ScalarSize |-> 255],
      [i \in 1..ScalarSize |-> IF i = 1 THEN 3 ELSE IF i = ScalarSize THEN 128 ELSE i] }

RandomOutcomes ==
    {[err |-> TRUE, bytes |-> <<>>]} \cup {[err |-> FALSE, bytes |-> s] : s \in Seeds}

\* uuid.New().String(): the identifier is not interpreted by the program
UUIDs == {"uuid-1"}

\* "forbidden"
ForbiddenText == <<102, 111, 114, 98, 105, 100, 100, 101, 110>>

Statuses == {199, 200, 299, 300, 403}

ConfigBody(text) == JObject(<< <<"config", JString(Raw(text))>> >>)

\* bodies every status is tried with; the last one carries a usable config
OtherBodies ==
    << Raw(ForbiddenText), Raw(<<>>), JObject(<<>>), JNull, JArray(<<>>),
       JObject(<< <<"config", JNumber>> >>), JObject(<< <<"config", JNull>> >>),
       ConfigBody(ShapeText(<<"hdr", "pay">>, 8)) >>

NoNet == [transportErr |-> FALSE, StatusCode |-> 0, Body |-> EmptyString, readErr |-> FALSE]

TransportFailure ==
    [transportErr |-> TRUE, StatusCode |-> 0, Body |-> EmptyString, readErr |-> FALSE]

Answer(code, body, readErr) ==
    [transportErr |-> FALSE, StatusCode |-> code, Body |-> body, readErr |-> readErr]

\* --------------------------------------------------------------------------
\* State of a run of main
\* --------------------------------------------------------------------------
VARIABLES
    pc,             \* the stage main is about to execute
    exit,           \* "running", "return", "fatal" (log.Fatalf), "panic"
    err,            \* the error log.Fatalf reported
    stdout,         \* what was printed, in order
    stages,         \* the stages executed so far, in order
    key,            \* *key, the -key flag
    decoded,        \* *decoded
    random,         \* what rand.Read did
    pubKey,         \* main's pubKey
    privateKey,     \* main's privateKey
    requestBody,    \* main's requestBody
    wire,           \* the requests sent to the network
    net,            \* what the network answered
    responseBody,   \* main's responseBody
    decodedConfig,  \* main's decodedConfig
    config,         \* main's config
    lastConfig,     \* main's lastConfig
    resp,           \* main's resp
    kgRandom,       \* key-pair harness: the random bytes handed in
    kgOut,          \* key-pair harness: the last result
    kgPrev,         \* key-pair harness: the result before that
    kgRound         \* key-pair harness: number of generations done

vars ==
    << pc, exit, err, stdout, stages, key, decoded, random, pubKey, privateKey,
       requestBody, wire, net, responseBody, decodedConfig, config, lastConfig,
       resp, kgRandom, kgOut, kgPrev, kgRound >>

mainVars ==
    << pc, exit, err, stdout, stages, key, decoded, random, pubKey, privateKey,
       requestBody, wire, net, responseBody, decodedConfig, config, lastConfig,
       resp >>

kgVars == << kgRandom, kgOut, kgPrev, kgRound >>

NoRandom == [err |-> FALSE, bytes |-> <<>>]

NoKeyPair == << <<>>, <<>>, NoErr >>

NoRequestBody ==
    [public_key |-> <<>>, os_version |-> "", app_version |-> "", uuid |-> ""]

MainInit ==
    /\ pc = "checkKey"
    /\ exit = "running"
    /\ err = NoErr
    /\ stdout = <<>>
    /\ stages = <<>>
    /\ decoded = [APIEndpoint |-> EmptyString, APIKey |-> EmptyString]
    /\ random = NoRandom
    /\ pubKey = <<>>
    /\ privateKey = <<>>
    /\ requestBody = NoRequestBody
    /\ wire = <<>>
    /\ net = NoNet
    /\ responseBody = [Config |-> EmptyString]
    /\ decodedConfig = EmptyString
    /\ config = [Containers |-> <<>>]
    /\ lastConfig = JObject(<<>>)
    /\ resp = <<>>

KgIdle ==
    /\ kgRandom = NoRandom
    /\ kgOut = NoKeyPair
    /\ kgPrev = NoKeyPair
    /\ kgRound = 0

Init ==
    /\ key \in Keys
    /\ MainInit
    /\ KgIdle

\* the ways a stage ends the run
Fatal(stage, e) ==
    /\ pc' = "exit"
    /\ exit' = "fatal"
    /\ err' = e
    /\ stages' = Append(stages, stage)

Panic(stage) ==
    /\ pc' = "exit"
    /\ exit' = "panic"
    /\ err' = err
    /\ stages' = Append(stages, stage)

Goto(stage, next) ==
    /\ pc' = next
    /\ exit' = exit
    /\ err' = err
    /\ stages' = Append(stages, stage)

\* lines 57-67
CheckKey ==
    /\ pc = "checkKey"
    /\ IF key = <<>>
       THEN /\ pc' = "exit"
            /\ exit' = "return"
            /\ err' = err
            /\ stages' = Append(stages, "checkKey")
            /\ stdout' = Append(stdout, [label |-> "usage", text |-> <<>>])
       ELSE /\ Goto("checkKey", "decodeLink")
            /\ stdout' = stdout
    /\ UNCHANGED << key, decoded, random, pubKey, privateKey, requestBody, wire, net,
                    responseBody, decodedConfig, config, lastConfig, resp >>
    /\ UNCHANGED kgVars

\* lines 69-76
DecodeLink ==
    /\ pc = "decodeLink"
    /\ LET r == decodeAndParse(key)
       IN  IF r.result = "panic" THEN Panic("decodeLink") /\ decoded' = decoded
           ELSE IF r.result = "err" THEN Fatal("decodeLink", r.err) /\ decoded' = decoded
           ELSE Goto("decodeLink", "generateKeys") /\ decoded' = r.val
    /\ UNCHANGED << stdout, key, random, pubKey, privateKey, requestBody, wire, net,
                    responseBody, decodedConfig, config, lastConfig, resp >>
    /\ UNCHANGED kgVars

\* lines 78-81
GenerateKeys ==
    /\ pc = "generateKeys"
    /\ \E rnd \in RandomOutcomes :
         LET r == GenerateX25519KeyPair(rnd)
         IN  /\ random' = rnd
             /\ IF IsErr(r[3])
                THEN Fatal("generateKeys", r[3]) /\ UNCHANGED << pubKey, privateKey >>
                ELSE /\ Goto("generateKeys", "sendRequest")
                     /\ pubKey' = r[1]
                     /\ privateKey' = r[2]
    /\ UNCHANGED << stdout, key, decoded, requestBody, wire, net,
                    responseBody, decodedConfig, config, lastConfig, resp >>
    /\ UNCHANGED kgVars

\* lines 83-98; answer is what the network does if the request is sent
SendRequestWith(uuid, answer) ==
    LET body == [public_key |-> pubKey, os_version |-> "macOS",
                 app_version |-> "4.8.2.3", uuid |-> uuid]
        r == sendPostRequest(decoded.APIEndpoint.bytes, body, decoded.APIKey.bytes,
                             responseBody, answer)
    IN  /\ requestBody' = body
        /\ wire' = wire \o r.wire
        /\ net' = IF r.wire = <<>> THEN net ELSE answer
        /\ responseBody' = r.response
        /\ IF IsErr(r.err)
           THEN Fatal("sendRequest", r.err)
           ELSE Goto("sendRequest", "decodeResponse")

SendRequest ==
    /\ pc = "sendRequest"
    /\ \E uuid \in UUIDs :
         \/ SendRequestWith(uuid, TransportFailure)
         \/ \E code \in Statuses, i \in 1..Len(OtherBodies), readErr \in BOOLEAN :
              SendRequestWith(uuid, Answer(code, OtherBodies[i], readErr))
         \/ \E text \in RespTexts :
              SendRequestWith(uuid, Answer(200, ConfigBody(text), FALSE))
    /\ UNCHANGED << stdout, key, decoded, random, pubKey, privateKey,
                    decodedConfig, config, lastConfig, resp >>
    /\ UNCHANGED kgVars

\* lines 99-102
DecodeResponse ==
    /\ pc = "decodeResponse"
    /\ LET d == decode(responseBody.Config.bytes)
       IN  IF d.result = "panic"
           THEN Panic("decodeResponse") /\ decodedConfig' = decodedConfig
           ELSE IF d.result = "err"
           THEN Fatal("decodeResponse", d.err) /\ decodedConfig' = decodedConfig
           ELSE Goto("decodeResponse", "parseConfig") /\ decodedConfig' = d.data
    /\ UNCHANGED << stdout, key, decoded, random, pubKey, privateKey, requestBody, wire,
                    net, responseBody, config, lastConfig, resp >>
    /\ UNCHANGED kgVars

\* lines 104-108
ParseConfig ==
    /\ pc = "parseConfig"
    /\ LET u == UnmarshalConfig(decodedConfig)
       IN  IF u.err
           THEN Fatal("parseConfig", Err(<<"json: cannot unmarshal">>)) /\ config' = config
           ELSE Goto("parseConfig", "parseLastConfig") /\ config' = u.val
    /\ UNCHANGED << stdout, key, decoded, random, pubKey, privateKey, requestBody, wire,
                    net, responseBody, decodedConfig, lastConfig, resp >>
    /\ UNCHANGED kgVars

\* lines 110-114; config.Containers[0] panics on an empty slice
ParseLastConfig ==
    /\ pc = "parseLastConfig"
    /\ IF Len(config.Containers) = 0
       THEN Panic("parseLastConfig") /\ lastConfig' = lastConfig
       ELSE LET u == UnmarshalMap(config.Containers[1].AWG.LastConfig)
            IN  IF u.err
                THEN /\ Fatal("parseLastConfig", Err(<<"json: cannot unmarshal">>))
                     /\ lastConfig' = lastConfig
                ELSE Goto("parseLastConfig", "assemble") /\ lastConfig' = u.val
    /\ UNCHANGED << stdout, key, decoded, random, pubKey, privateKey, requestBody, wire,
                    net, responseBody, decodedConfig, config, resp >>
    /\ UNCHANGED kgVars

\* lines 116-120; lastConfig["config"].(string) panics unless it is a string
Assemble ==
    /\ pc = "assemble"
    /\ LET printed == Append(stdout, [label |-> "Private key", text |-> privateKey])
           c == Member(lastConfig, "config")
       IN  IF c.kind # "string"
           THEN /\ Panic("assemble")
                /\ stdout' = printed
                /\ resp' = resp
           ELSE LET r == ReplaceAll(c.str.bytes, Placeholder, privateKey)
                IN  /\ pc' = "exit"
                    /\ exit' = "return"
                    /\ err' = err
                    /\ stages' = Append(stages, "assemble")
                    /\ resp' = r
                    /\ stdout' = Append(printed, [label |-> "Response", text |-> r])
    /\ UNCHANGED << key, decoded, random, pubKey, privateKey, requestBody, wire,
                    net, responseBody, decodedConfig, config, lastConfig >>
    /\ UNCHANGED kgVars

Next ==
    \/ CheckKey
    \/ DecodeLink
    \/ GenerateKeys
    \/ SendRequest
    \/ DecodeResponse
    \/ ParseConfig
    \/ ParseLastConfig
    \/ Assemble

Spec == Init /\ [][Next]_vars

\* --------------------------------------------------------------------------
\* Key-pair harness: GenerateX25519KeyPair on byte 0 and byte 31 of every
\* value, and once more on the scalar it returned
\* --------------------------------------------------------------------------
\* values of the other of the two clamped bytes while one ranges over Byte
EdgeBytes == {0, 7, 8, 63, 64, 127, 128, 192, 248, 255}

\* values of the bytes 1..30
FillBytes == {0, 165, 255}

KgSeeds ==
    { [i \in 1..ScalarSize |-> IF i = 1 THEN b0 ELSE IF i = ScalarSize THEN b31 ELSE f] :
        b0 \in Byte, b31 \in EdgeBytes, f \in FillBytes }
    \cup
    { [i \in 1..ScalarSize |-> IF i = 1 THEN b0 ELSE IF i = ScalarSize THEN b31 ELSE f] :
        b0 \in EdgeBytes, b31 \in Byte, f \in FillBytes }

KgInit ==
    /\ key = <<>>
    /\ MainInit
    /\ kgRandom \in {[err |-> FALSE, bytes |-> s] : s \in KgSeeds}
    /\ kgOut = NoKeyPair
    /\ kgPrev = NoKeyPair
    /\ kgRound = 0

\* the first call, on the random bytes
KgGenerate ==
    /\ kgRound = 0
    /\ kgOut' = GenerateX25519KeyPair(kgRandom)
    /\ kgPrev' = kgOut
    /\ kgRound' = 1
    /\ UNCHANGED kgRandom
    /\ UNCHANGED mainVars

\* a second call, on the scalar the first call returned
KgRegenerate ==
    /\ kgRound = 1
    /\ kgRandom' = [err |-> FALSE, bytes |-> DecodeString(StdEncoding, kgOut[1]).bytes]
    /\ kgOut' = GenerateX25519KeyPair(kgRandom')
    /\ kgPrev' = kgOut
    /\ kgRound' = 2
    /\ UNCHANGED mainVars

KgNext ==
    \/ KgGenerate
    \/ KgRegenerate

KgSpec == KgInit /\ [][KgNext]_vars

\* --------------------------------------------------------------------------
\* Properties
\* --------------------------------------------------------------------------
InStages(stage) == \E i \in 1..Len(stages) : stages[i] = stage

LastStage == IF stages = <<>> THEN "none" ELSE stages[Len(stages)]

\* the texts of the key pair that belongs to the random bytes of the run
PrivateKeyText == EncodeToString(StdEncoding, Clamp(random.bytes))

PublicKeyText == EncodeToString(StdEncoding, X25519(Clamp(random.bytes), Basepoint))

\* the network answered the request with a status and a body
Answered == wire # <<>> /\ ~net.transportErr

\* C1: every request sent carries, as public_key, the public half of the
\* generated key pair, and the private half appears nowhere in the request.
C1_RequestCarriesPublicKey ==
    \A i \in 1..Len(wire) :
        /\ wire[i].Body.public_key = PublicKeyText
        /\ ~Contains(wire[i].Body.public_key, PrivateKeyText)
        /\ ~Contains(wire[i].URL, PrivateKeyText)
        /\ ~Contains(wire[i].Authorization, PrivateKeyText)

\* C2: a run that completes all stages outputs the template with the private
\* key text (the clamped scalar in base64) at every position of the
\* placeholder, and the output holds no placeholder.
C2_FinalConfigHasPrivateKey ==
    (exit = "return" /\ InStages("assemble")) =>
        /\ \A t \in 1..Len(Templates) :
              Member(lastConfig, "config").str.bytes = TemplateText(t)
                  => resp = Render(Templates[t], PrivateKeyText)
        /\ ~Contains(resp, Placeholder)

\* text is valid URL-safe base64 of fewer than 4 bytes
DecodesShort(text) ==
    LET d == DecodeString(URLEncoding, text)
    IN  ~d.err /\ Len(d.bytes) < HeaderLen

\* C3: decode of valid URL-safe base64 that holds fewer than 4 bytes (the
\* empty string included) returns an error to its caller, which reports it;
\* it does not crash.
C3_TruncatedPayloadIsAnError ==
    /\ (InStages("decodeLink") /\ DecodesShort(key)) =>
           (exit = "fatal" /\ LastStage = "decodeLink" /\ IsErr(err))
    /\ (InStages("decodeResponse") /\ DecodesShort(responseBody.Config.bytes)) =>
           (exit = "fatal" /\ LastStage = "decodeResponse" /\ IsErr(err))

\* C4: a server document without containers, or with an empty list, ends the
\* run with an error in the assembly stage; the first container is not
\* indexed and no final configuration is produced.
C4_NoContainersIsAnError ==
    (InStages("parseLastConfig") /\ Len(config.Containers) = 0) =>
        /\ exit = "fatal"
        /\ IsErr(err)
        /\ resp = <<>>

\* the body is a document with a string field config
HasStringConfig(body) == body.kind = "object" /\ Member(body, "config").kind = "string"

\* C5: a 2xx answer whose body is not a document with a string field config
\* makes the exchange fail with an error, and no later stage runs.
C5_MalformedResponseIsAnError ==
    (Answered /\ net.StatusCode >= 200 /\ net.StatusCode < 300 /\ ~net.readErr
        /\ ~HasStringConfig(net.Body)) =>
        /\ exit = "fatal"
        /\ LastStage = "sendRequest"
        /\ IsErr(err)

\* the string field name of the object doc is missing or empty
LacksField(doc, name) ==
    \/ Member(doc, name).kind = "absent"
    \/ Member(doc, name).kind = "string" /\ Member(doc, name).str = EmptyString

\* the link decompresses to a document without an endpoint or a credential
LinkLacksField ==
    LET d == decode(key)
    IN  /\ d.result = "ok"
        /\ d.data.kind = "object"
        /\ ~UnmarshalDecodedData(d.data).err
        /\ LacksField(d.data, "api_endpoint") \/ LacksField(d.data, "api_key")

C7_RejectionStopsTheRun ==
    (Answered /\ (net.StatusCode < 200 \/ net.StatusCode >= 300)) =>
        /\ pc = "exit"
        /\ exit = "fatal"
        /\ err.StatusCode = net.StatusCode
        /\ err.Response = net.Body
        /\ LastStage = "sendRequest"
        /\ responseBody = [Config |-> EmptyString]
        /\ decodedConfig = EmptyString
        /\ resp = <<>>
        /\ stdout = <<>>

C7_Witness ==
    /\ Answered
    /\ net.StatusCode = 403
    /\ net.Body = Raw(ForbiddenText)
    /\ exit = "fatal"

TrimScheme(text) ==
    IF HasPrefix(text, VpnPrefix) THEN SubSeq(text, Len(VpnPrefix) + 1, Len(text)) ELSE text

\* C9: the scheme marker is removed only as the leading prefix of the link: a
\* link with the marker elsewhere fails base64 decoding, and so does a
\* response config that holds the marker, since nothing is stripped there.
C9_SchemeStrippedOnlyAsLinkPrefix ==
    /\ (InStages("decodeLink") /\ Contains(TrimScheme(key), VpnPrefix)) =>
           /\ exit = "fatal"
           /\ err.msgs = <<"failed to decode data", "failed to decode Base64 string">>
    /\ (InStages("decodeResponse") /\ Contains(responseBody.Config.bytes, VpnPrefix)) =>
           /\ exit = "fatal"
           /\ err.msgs = <<"failed to decode Base64 string">>

\* C10: the scalar that is multiplied with the base point and returned as the
\* private key has bits 0..2 of byte 0 clear, bit 7 of byte 31 clear, bit 6 of
\* byte 31 set and every other bit as drawn; generating from an already
\* clamped value returns the same key pair.
C10_ClampedScalar ==
    kgRound >= 1 =>
        LET d == DecodeString(StdEncoding, kgOut[1])
            scalar == d.bytes
            drawn == kgRandom.bytes
        IN  /\ ~d.err
            /\ Len(scalar) = ScalarSize
            /\ \A n \in 0..2 : Bit(scalar[1], n) = 0
            /\ Bit(scalar[ScalarSize], 7) = 0
            /\ Bit(scalar[ScalarSize], 6) = 1
            /\ \A i \in 1..ScalarSize, n \in 0..7 :
                  ~(i = 1 /\ n <= 2) /\ ~(i = ScalarSize /\ n >= 6)
                      => Bit(scalar[i], n) = Bit(drawn[i], n)
            /\ kgOut[2] = EncodeToString(StdEncoding, X25519(scalar, Basepoint))
            /\ kgRound = 2 => kgOut = kgPrev

C10_Witness ==
    /\ kgRound = 1
    /\ kgRandom.bytes[1] = 255
    /\ kgRandom.bytes[ScalarSize] = 128

====
